---- MODULE Spec2Model ----
(***************************************************************************)
(* Model of ev (src/main.rs): the dice-notation parser, the Roll           *)
(* statistics and rendering, and the command-line loop around them.        *)
(*                                                                         *)
(* A string is a sequence of one-character strings.  An f32 value x that   *)
(* the program computes is carried as the integer 2*x ("halves"), rounded  *)
(* to the 24-bit significand of an f32 after every operation.              *)
(***************************************************************************)
EXTENDS Integers, Sequences, FiniteSets, TLC

VARIABLES pc, desc, res, roll, text, stat,
          cpc, flags, badopt, free, stdin, taken, out, style

vars == <<pc, desc, res, roll, text, stat,
          cpc, flags, badopt, free, stdin, taken, out, style>>

coreVars == <<pc, desc, res, roll, text, stat>>

cliVars == <<cpc, flags, badopt, free, stdin, taken, out, style>>

(***************************************************************************)
(* Bounds of the model.                                                    *)
(***************************************************************************)
MaxLen == 5

StatMax == 10000

MaxInputs == 2

(***************************************************************************)
(* Program constants and field types.                                      *)
(***************************************************************************)
MAX_DIGITS == 5

U16_MAX == 65535

I16_MIN == 0 - 32768

I16_MAX == 32767

F32_MANT == 16777216

(***************************************************************************)
(* Characters.                                                             *)
(***************************************************************************)
DigitSeq == <<"0", "1", "2", "3", "4", "5", "6", "7", "8", "9">>

DigitChars == {DigitSeq[i] : i \in 1..10}

IsDigit(c) == c \in DigitChars

DigitVal(c) == (CHOOSE i \in 1..10 : DigitSeq[i] = c) - 1

Abs(n) == IF n < 0 THEN 0 - n ELSE n

Drop(s, n) == SubSeq(s, n + 1, Len(s))

starts_with(s, c) == Len(s) > 0 /\ s[1] = c

(***************************************************************************)
(* Roll and the parse result.                                              *)
(***************************************************************************)
Roll_new(num_dice, num_faces, extra) ==
    [num_dice |-> num_dice, num_faces |-> num_faces, extra |-> extra]

NoRoll == [num_dice |-> 0 - 1, num_faces |-> 0 - 1, extra |-> 0]

EvError == {"InvalidFormat", "MissingNumberOfDice", "MissingNumberOfSides",
            "MissingExtra", "TooManyDice", "TooManySides", "ExtraTooLarge"}

Ok(r) == [ok |-> TRUE, err |-> "None", roll |-> r]

Err(e) == [ok |-> FALSE, err |-> e, roll |-> NoRoll]

NoRes == [ok |-> FALSE, err |-> "Unparsed", roll |-> NoRoll]

description(e) ==
    CASE e = "InvalidFormat" -> "invalid format"
      [] e = "MissingNumberOfDice" -> "missing number of dice"
      [] e = "MissingNumberOfSides" -> "missing number of sides"
      [] e = "MissingExtra" -> "missing bonus"
      [] e = "TooManyDice" -> "too many dice"
      [] e = "TooManySides" -> "too many sides"
      [] e = "ExtraTooLarge" -> "bonus too large"

(***************************************************************************)
(* read_digits: the number of leading ASCII digits, at most MAX_DIGITS.    *)
(***************************************************************************)
RECURSIVE read_digits_from(_, _)
read_digits_from(s, i) ==
    IF i >= MAX_DIGITS \/ i >= Len(s) \/ ~IsDigit(s[i + 1])
    THEN i
    ELSE read_digits_from(s, i + 1)

read_digits(s) == read_digits_from(s, 0)

(***************************************************************************)
(* str::parse::<u16>() and str::parse::<i16>(): an optional sign ('-' for  *)
(* the signed type only), then one or more digits, accumulated in base 10  *)
(* with a range check.                                                     *)
(***************************************************************************)
RECURSIVE DecValue(_)
DecValue(s) ==
    IF Len(s) = 0 THEN 0
    ELSE 10 * DecValue(SubSeq(s, 1, Len(s) - 1)) + DigitVal(s[Len(s)])

parse_int(s, lo, hi) ==
    LET signed == lo < 0
        neg    == signed /\ starts_with(s, "-")
        body   == IF starts_with(s, "+") \/ neg THEN Drop(s, 1) ELSE s
        v      == IF neg THEN 0 - DecValue(body) ELSE DecValue(body)
    IN  IF Len(body) = 0 \/ (\E k \in 1..Len(body) : ~IsDigit(body[k]))
        THEN [ok |-> FALSE, val |-> 0]
        ELSE IF v < lo \/ v > hi
             THEN [ok |-> FALSE, val |-> 0]
             ELSE [ok |-> TRUE, val |-> v]

parse_u16(s) == parse_int(s, 0, U16_MAX)

parse_i16(s) == parse_int(s, I16_MIN, I16_MAX)

(***************************************************************************)
(* parse, in the four stages of its body.                                  *)
(***************************************************************************)
parse_tail_mut(rest, nd, nf, extra) == Ok(Roll_new(nd, nf, extra))

parse_tail(rest, nd, nf, extra) ==
    IF Len(rest) # 0
    THEN Err("InvalidFormat")
    ELSE Ok(Roll_new(nd, nf, extra))

parse_extra_mut(rest, nd, nf) ==
    IF starts_with(rest, "+") \/ starts_with(rest, "-")
    THEN LET i == read_digits(Drop(rest, 1))
             ex == parse_i16(SubSeq(rest, 1, i + 1))
         IN  IF i >= MAX_DIGITS THEN Err("ExtraTooLarge")
             ELSE IF ~ex.ok THEN Err("ExtraTooLarge")
             ELSE parse_tail(Drop(rest, i + 1), nd, nf, ex.val)
    ELSE parse_tail(rest, nd, nf, 0)

parse_extra(rest, nd, nf) ==
    IF starts_with(rest, "+") \/ starts_with(rest, "-")
    THEN LET i == read_digits(Drop(rest, 1))
             ex == parse_i16(SubSeq(rest, 1, i + 1))
         IN  IF i = 0 THEN Err("MissingExtra")
             ELSE IF i >= MAX_DIGITS THEN Err("ExtraTooLarge")
             ELSE IF ~ex.ok THEN Err("ExtraTooLarge")
             ELSE parse_tail(Drop(rest, i + 1), nd, nf, ex.val)
    ELSE parse_tail(rest, nd, nf, 0)

parse_faces(rest, nd) ==
    LET i == read_digits(rest)
        nf == parse_u16(SubSeq(rest, 1, i))
    IN  IF i = 0 THEN Err("MissingNumberOfSides")
        ELSE IF i >= MAX_DIGITS THEN Err("TooManySides")
        ELSE IF ~nf.ok THEN Err("TooManySides")
        ELSE parse_extra(Drop(rest, i), nd, nf.val)

parse(roll_desc) ==
    LET i == read_digits(roll_desc)
        nd == parse_u16(SubSeq(roll_desc, 1, i))
        rest == Drop(roll_desc, i)
    IN  IF i = 0 THEN Err("MissingNumberOfDice")
        ELSE IF i >= MAX_DIGITS THEN Err("TooManyDice")
        ELSE IF ~nd.ok THEN Err("TooManyDice")
        ELSE IF ~starts_with(rest, "d") THEN Err("InvalidFormat")
        ELSE parse_faces(Drop(rest, 1), nd.val)

(***************************************************************************)
(* Display for Roll: "{}d{}" and then "{:+}" of a nonzero extra.           *)
(***************************************************************************)
RECURSIVE fmt_dec(_)
fmt_dec(n) ==
    IF n < 10 THEN <<DigitSeq[n + 1]>>
    ELSE fmt_dec(n \div 10) \o <<DigitSeq[(n % 10) + 1]>>

fmt_plus(n) == (IF n < 0 THEN <<"-">> ELSE <<"+">>) \o fmt_dec(Abs(n))

fmt_Roll_mut(r) ==
    fmt_dec(r.num_dice) \o <<"d">> \o fmt_dec(r.num_faces) \o fmt_plus(r.extra)

fmt_Roll(r) ==
    fmt_dec(r.num_dice) \o <<"d">> \o fmt_dec(r.num_faces)
        \o (IF r.extra # 0 THEN fmt_plus(r.extra) ELSE <<>>)

(***************************************************************************)
(* f32 arithmetic on halves: round to nearest, ties to even, 24 bits.      *)
(***************************************************************************)
RECURSIVE f32_ulp(_, _)
f32_ulp(a, q) == IF a \div q < F32_MANT THEN q ELSE f32_ulp(a, 2 * q)

f32_round(h) ==
    LET a == Abs(h)
        q == f32_ulp(a, 1)
        m == a \div q
        rem == a - m * q
        up == 2 * rem > q \/ (2 * rem = q /\ m % 2 = 1)
        r == IF up THEN (m + 1) * q ELSE m * q
    IN  IF h < 0 THEN 0 - r ELSE r

f32_add(x, y) == f32_round(x + y)

f32_mul(x, y) == f32_round((x * y) \div 2)

f32_half(x) == x \div 2

float_values(r) ==
    [nd |-> 2 * r.num_dice, nf |-> 2 * r.num_faces, extra |-> 2 * r.extra]

ev_mut(r) ==
    LET f == float_values(r)
        single_die_ev == f32_half(f.nf)
    IN  f32_add(f32_mul(f.nd, single_die_ev), f.extra)

ev(r) ==
    LET f == float_values(r)
        single_die_ev == f32_half(f32_add(f.nf, 2))
    IN  f32_add(f32_mul(f.nd, single_die_ev), f.extra)

min(r) ==
    LET f == float_values(r)
    IN  f32_add(f.nd, f.extra)

max(r) ==
    LET f == float_values(r)
    IN  f32_add(f32_mul(f.nd, f.nf), f.extra)

(***************************************************************************)
(* Inputs of the core: every string over Alphabet of length <= MaxLen,     *)
(* and rolls written with the boundary fields below.                       *)
(***************************************************************************)
Alphabet == {"0", "1", "9", "d", "+", "-", "x"}

Strings == UNION {[1..n -> Alphabet] : n \in 0..MaxLen}

CountFields ==
    { <<"0">>, <<"0", "1">>, <<"6">>, <<"4", "0", "9", "7">>,
      <<"9", "9", "9", "9">>, <<"1", "0", "0", "0", "0">>,
      <<"6", "5", "5", "3", "5">>, <<"6", "5", "5", "3", "6">>,
      <<"9", "9", "9", "9", "9">>, <<"1", "0", "0", "0", "0", "0">> }

ExtraFields ==
    { <<"0">>, <<"0", "1">>, <<"2">>, <<"9", "9", "9", "9">>,
      <<"3", "2", "7", "6", "7">>, <<"3", "2", "7", "6", "8">>,
      <<"1", "2", "3", "4", "5", "6">> }

Tails == { <<>>, <<"x">>, <<"+", "3">> }

Written ==
    { a \o <<"d">> \o b \o t : a \in CountFields, b \in CountFields, t \in Tails }
    \cup
    { a \o <<"d">> \o b \o <<sg>> \o e \o t :
        a \in {<<"1">>, <<"0", "1">>, <<"6", "5", "5", "3", "5">>},
        b \in {<<"6">>, <<"1", "0", "0", "0", "0">>},
        sg \in {"+", "-"}, e \in ExtraFields, t \in Tails }

Inputs == Strings \cup Written

SampleCounts == {0, 1, 2, 3, 4, 6, 10, 4097, 9999, 10000, 65535}

SampleExtras == {I16_MIN, 0 - 9999, 0 - 1, 0, 1, 2, 9999, 10000, I16_MAX}

(***************************************************************************)
(* The core: a line is parsed, or a Roll is built with Roll::new; a Roll   *)
(* is rendered, its statistics are computed, and its rendering is parsed.  *)
(***************************************************************************)
NoStat == [min |-> 0, max |-> 0, ev |-> 0]

CliIdle ==
    /\ cpc = "idle"
    /\ flags = {}
    /\ badopt = FALSE
    /\ free = <<>>
    /\ stdin = <<>>
    /\ taken = 0
    /\ out = <<>>
    /\ style = "MultiLine"

Init ==
    /\ \/ pc = "line" /\ desc \in Inputs
       \/ pc = "api" /\ desc = <<>>
    /\ res = NoRes
    /\ roll = NoRoll
    /\ text = <<>>
    /\ stat = NoStat
    /\ CliIdle

Parse ==
    /\ pc = "line"
    /\ res' = parse(desc)
    /\ roll' = res'.roll
    /\ pc' = IF res'.ok THEN "built" ELSE "failed"
    /\ UNCHANGED <<desc, text, stat>>
    /\ UNCHANGED cliVars

RollNew(nd, nf, ex) ==
    /\ pc = "api"
    /\ roll' = Roll_new(nd, nf, ex)
    /\ pc' = "built"
    /\ UNCHANGED <<desc, res, text, stat>>
    /\ UNCHANGED cliVars

Display ==
    /\ pc = "built"
    /\ text' = fmt_Roll(roll)
    /\ pc' = "shown"
    /\ UNCHANGED <<desc, res, roll, stat>>
    /\ UNCHANGED cliVars

Statistics ==
    /\ pc = "shown"
    /\ roll.num_dice <= StatMax
    /\ roll.num_faces <= StatMax
    /\ stat' = [min |-> min(roll), max |-> max(roll), ev |-> ev(roll)]
    /\ pc' = "printed"
    /\ UNCHANGED <<desc, res, roll, text>>
    /\ UNCHANGED cliVars

Reparse ==
    /\ pc = "shown"
    /\ desc' = text
    /\ res' = parse(text)
    /\ pc' = "reparsed"
    /\ UNCHANGED <<roll, text, stat>>
    /\ UNCHANGED cliVars

Next ==
    \/ Parse
    \/ \E nd \in SampleCounts, nf \in SampleCounts, ex \in SampleExtras :
          RollNew(nd, nf, ex)
    \/ Display
    \/ Statistics
    \/ Reparse

Spec == Init /\ [][Next]_vars

(***************************************************************************)
(* The command line: main reads its options, then hands every positional   *)
(* argument, or when there is none every trimmed line of the standard      *)
(* input, to parse_and_print.  out is what was written, in order.          *)
(***************************************************************************)
Whitespace == {" ", "\t", "\n"}

RECURSIVE trim_start(_)
trim_start(s) ==
    IF Len(s) > 0 /\ s[1] \in Whitespace THEN trim_start(Drop(s, 1)) ELSE s

RECURSIVE trim_end(_)
trim_end(s) ==
    IF Len(s) > 0 /\ s[Len(s)] \in Whitespace
    THEN trim_end(SubSeq(s, 1, Len(s) - 1))
    ELSE s

trim(s) == trim_end(trim_start(s))

Written_out(stream, what, t, st, e, line) ==
    [stream |-> stream, what |-> what, text |-> t,
     min |-> st.min, max |-> st.max, ev |-> st.ev, error |-> e, line |-> line]

print(r) ==
    Written_out("stdout", "SingleLine", fmt_Roll(r),
                [min |-> min(r), max |-> max(r), ev |-> ev(r)], "", <<>>)

pretty_print(r) ==
    Written_out("stdout", "MultiLine", fmt_Roll(r),
                [min |-> min(r), max |-> max(r), ev |-> ev(r)], "", <<>>)

errmsg(e, line) == Written_out("stderr", "ev", <<>>, NoStat, e, line)

parse_and_print_mut(line, output_style) ==
    LET r == parse(line)
    IN  IF r.ok
        THEN IF output_style = "SingleLine"
             THEN <<print(r.roll)>>
             ELSE <<pretty_print(r.roll)>>
        ELSE <<>>

parse_and_print(line, output_style) ==
    LET r == parse(line)
    IN  IF r.ok
        THEN IF output_style = "SingleLine"
             THEN <<print(r.roll)>>
             ELSE <<pretty_print(r.roll)>>
        ELSE <<errmsg(description(r.err), line)>>

ArgSamples ==
    { <<"1", "d", "6">>, <<"3", "x", "4">>, <<" ", "1", "d", "6">> }

LineSamples ==
    { <<"1", "d", "6", "\n">>, <<" ", "3", "d", "1", "0", "-", "1", " ", "\n">>,
      <<"\n">>, <<"5", "d">> }

SeqsUpTo(S, n) == UNION {[1..k -> S] : k \in 0..n}

CoreIdle ==
    /\ pc = "idle"
    /\ desc = <<>>
    /\ res = NoRes
    /\ roll = NoRoll
    /\ text = <<>>
    /\ stat = NoStat

CliInit ==
    /\ cpc = "main"
    /\ flags \in SUBSET {"s", "h", "v"}
    /\ badopt \in BOOLEAN
    /\ free \in SeqsUpTo(ArgSamples, MaxInputs)
    /\ stdin \in SeqsUpTo(LineSamples, MaxInputs)
    /\ taken = 0
    /\ out = <<>>
    /\ style = "MultiLine"
    /\ CoreIdle

MainOptions ==
    /\ cpc = "main"
    /\ IF badopt
       THEN /\ out' = Append(out, errmsg("getopts", <<>>))
            /\ cpc' = "exit1"
            /\ UNCHANGED style
       ELSE IF "h" \in flags
       THEN /\ out' = Append(out, Written_out("stdout", "usage", <<>>, NoStat, "", <<>>))
            /\ cpc' = "exit0"
            /\ UNCHANGED style
       ELSE IF "v" \in flags
       THEN /\ out' = Append(out, Written_out("stdout", "version", <<>>, NoStat, "", <<>>))
            /\ cpc' = "exit0"
            /\ UNCHANGED style
       ELSE /\ style' = IF "s" \in flags THEN "SingleLine" ELSE "MultiLine"
            /\ cpc' = IF Len(free) # 0 THEN "args" ELSE "stdin"
            /\ UNCHANGED out
    /\ UNCHANGED <<flags, badopt, free, stdin, taken>>
    /\ UNCHANGED coreVars

ArgStep ==
    /\ cpc = "args"
    /\ taken < Len(free)
    /\ out' = out \o parse_and_print(free[taken + 1], style)
    /\ taken' = taken + 1
    /\ UNCHANGED <<cpc, flags, badopt, free, stdin, style>>
    /\ UNCHANGED coreVars

ArgEnd ==
    /\ cpc = "args"
    /\ taken = Len(free)
    /\ cpc' = "done"
    /\ UNCHANGED <<flags, badopt, free, stdin, taken, out, style>>
    /\ UNCHANGED coreVars

StdinStep ==
    /\ cpc = "stdin"
    /\ taken < Len(stdin)
    /\ out' = out \o parse_and_print(trim(stdin[taken + 1]), style)
    /\ taken' = taken + 1
    /\ UNCHANGED <<cpc, flags, badopt, free, stdin, style>>
    /\ UNCHANGED coreVars

StdinEof ==
    /\ cpc = "stdin"
    /\ taken = Len(stdin)
    /\ cpc' = "done"
    /\ UNCHANGED <<flags, badopt, free, stdin, taken, out, style>>
    /\ UNCHANGED coreVars

CliNext ==
    \/ MainOptions
    \/ ArgStep
    \/ ArgEnd
    \/ StdinStep
    \/ StdinEof

SpecCli == CliInit /\ [][CliNext]_vars

(***************************************************************************)
(* Vocabulary of the properties.                                           *)
(***************************************************************************)
Parsed == res # NoRes

DigitRun(s) ==
    CHOOSE n \in 0..Len(s) :
        /\ \A k \in 1..n : IsDigit(s[k])
        /\ n = Len(s) \/ ~IsDigit(s[n + 1])

AllDigits(s) == Len(s) >= 1 /\ \A k \in 1..Len(s) : IsDigit(s[k])

Signs == {"+", "-"}

\* The grammar's three fields of s, as far as s has them: the maximal digit
\* run at the start, the one after a 'd' that follows it, and the one after
\* a sign that follows that.
DiceField(s) == SubSeq(s, 1, DigitRun(s))

AfterDice(s) == Drop(s, DigitRun(s))

HasFaces(s) == Len(DiceField(s)) >= 1 /\ starts_with(AfterDice(s), "d")

FacesField(s) == DiceField(Drop(AfterDice(s), 1))

AfterFaces(s) == AfterDice(Drop(AfterDice(s), 1))

HasExtra(s) ==
    /\ HasFaces(s)
    /\ Len(FacesField(s)) >= 1
    /\ Len(AfterFaces(s)) >= 1
    /\ AfterFaces(s)[1] \in Signs

ExtraField(s) == DiceField(Drop(AfterFaces(s), 1))

AfterExtra(s) == AfterDice(Drop(AfterFaces(s), 1))

InRange(r) ==
    /\ r.num_dice \in 1..U16_MAX
    /\ r.num_faces \in 1..U16_MAX
    /\ r.extra \in I16_MIN..I16_MAX

\* C1: parsing the canonical rendering of a Roll whose fields are in range
\* gives back Ok with the same three fields.
C1_RoundTrip ==
    (pc = "reparsed" /\ InRange(roll)) => (res.ok /\ res.roll = roll)

NoLeadingZero(f) == Len(f) >= 1 /\ f[1] # "0"

\* C2: a dice count, or a face count, written without a leading zero is
\* rejected as too large exactly when its value is over 65535; 65535 and the
\* 5-digit counts below it are not.
C2_RangeBoundary ==
    Parsed =>
        /\ NoLeadingZero(DiceField(desc)) =>
              (res.err = "TooManyDice" <=> DecValue(DiceField(desc)) > U16_MAX)
        /\ ( /\ HasFaces(desc)
             /\ NoLeadingZero(DiceField(desc))
             /\ DecValue(DiceField(desc)) <= U16_MAX
             /\ NoLeadingZero(FacesField(desc)) ) =>
              (res.err = "TooManySides" <=> DecValue(FacesField(desc)) > U16_MAX)

\* C3: a Roll that parse returns has at least one die and at least one face.
C3_PositiveCounts ==
    (Parsed /\ res.ok) => (res.roll.num_dice >= 1 /\ res.roll.num_faces >= 1)

LeadingZero(s) ==
    \/ starts_with(DiceField(s), "0")
    \/ HasFaces(s) /\ starts_with(FacesField(s), "0")
    \/ HasExtra(s) /\ starts_with(ExtraField(s), "0")

\* C4: an input with a dice count, a face count or an extra magnitude that
\* starts with '0' is rejected with InvalidFormat.
C4_LeadingZeroRejected ==
    (Parsed /\ LeadingZero(desc)) => res = Err("InvalidFormat")

\* The range-check policy: a field is over the limit when its digits reach
\* the MAX_DIGITS ceiling or its value is outside the 16-bit range of the
\* field.
CountOver(f) == Len(f) >= MAX_DIGITS \/ DecValue(f) > U16_MAX

ExtraOver(sg, f) ==
    \/ Len(f) >= MAX_DIGITS
    \/ (IF sg = "-" THEN 0 - DecValue(f) ELSE DecValue(f)) \notin I16_MIN..I16_MAX

\* The error of the leftmost malformed token of s, "None" when s has none.
Leftmost(s) ==
    IF Len(DiceField(s)) = 0 THEN "MissingNumberOfDice"
    ELSE IF CountOver(DiceField(s)) THEN "TooManyDice"
    ELSE IF ~starts_with(AfterDice(s), "d") THEN "InvalidFormat"
    ELSE IF Len(FacesField(s)) = 0 THEN "MissingNumberOfSides"
    ELSE IF CountOver(FacesField(s)) THEN "TooManySides"
    ELSE IF Len(AfterFaces(s)) = 0 THEN "None"
    ELSE IF AfterFaces(s)[1] \notin Signs THEN "InvalidFormat"
    ELSE IF Len(ExtraField(s)) = 0 THEN "MissingExtra"
    ELSE IF ExtraOver(AfterFaces(s)[1], ExtraField(s)) THEN "ExtraTooLarge"
    ELSE IF Len(AfterExtra(s)) # 0 THEN "InvalidFormat"
    ELSE "None"

WholeShape(s) ==
    \E i \in 2..Len(s) :
        /\ s[i] = "d"
        /\ AllDigits(SubSeq(s, 1, i - 1))
        /\ \/ AllDigits(Drop(s, i))
           \/ \E j \in (i + 2)..Len(s) :
                 /\ s[j] \in Signs
                 /\ AllDigits(SubSeq(s, i + 1, j - 1))
                 /\ AllDigits(Drop(s, j))

\* p is a roll on its own: the shape of the grammar, no field over its limit.
WellFormedRoll(p) == WholeShape(p) /\ Leftmost(p) = "None"

\* c cannot extend the roll p: it is no digit, and no sign unless p already
\* has its modifier.
CannotExtend(p, c) ==
    /\ ~IsDigit(c)
    /\ c \in Signs => \E k \in 1..Len(p) : p[k] \in Signs

C7_ExactStatistics ==
    pc = "printed" =>
        /\ stat.min = 2 * (roll.num_dice + roll.extra)
        /\ stat.max = 2 * (roll.num_dice * roll.num_faces + roll.extra)
        /\ stat.ev = roll.num_dice * (roll.num_faces + 1) + 2 * roll.extra

\* C8: for a Roll with at least one die and one face, min <= ev <= max.
C8_Ordering ==
    (pc = "printed" /\ roll.num_dice >= 1 /\ roll.num_faces >= 1)
        => (stat.min <= stat.ev /\ stat.ev <= stat.max)

C8_Witness ==
    /\ pc = "printed"
    /\ roll = Roll_new(9999, 9999, I16_MIN)
    /\ stat.min < stat.ev
    /\ stat.ev < stat.max

Decimal(f, n) ==
    /\ AllDigits(f)
    /\ Len(f) > 1 => f[1] # "0"
    /\ DecValue(f) = n

\* C10: the rendering of a Roll is the decimal num_dice, 'd', the decimal
\* num_faces and, exactly when extra is not zero, the sign of extra and its
\* decimal magnitude.
C10_CanonicalRendering ==
    pc = "shown" =>
        /\ Decimal(DiceField(text), roll.num_dice)
        /\ HasFaces(text)
        /\ Decimal(FacesField(text), roll.num_faces)
        /\ roll.extra = 0 => Len(AfterFaces(text)) = 0
        /\ roll.extra # 0 =>
              /\ HasExtra(text)
              /\ AfterFaces(text)[1] = (IF roll.extra > 0 THEN "+" ELSE "-")
              /\ Decimal(ExtraField(text), Abs(roll.extra))
              /\ Len(AfterExtra(text)) = 0
        /\ roll = Roll_new(1, 6, 0) => text = <<"1", "d", "6">>
        /\ roll = Roll_new(2, 4, 1) => text = <<"2", "d", "4", "+", "1">>
        /\ roll = Roll_new(3, 10, 0 - 1) => text = <<"3", "d", "1", "0", "-", "1">>

C10_Witness ==
    /\ pc = "shown"
    /\ roll = Roll_new(3, 10, 0 - 1)
    /\ text = <<"3", "d", "1", "0", "-", "1">>

\* The inputs of a run of the loop, in order: the positional arguments, or
\* the trimmed lines of the standard input when there is no argument.
LoopInputs ==
    IF Len(free) # 0 THEN free ELSE [i \in 1..Len(stdin) |-> trim(stdin[i])]

InLoop == cpc \in {"args", "stdin", "done"}

ReportOf(line, o) ==
    IF parse(line).ok
    THEN /\ o.stream = "stdout"
         /\ o.what = style
         /\ o.text = fmt_Roll(parse(line).roll)
         /\ o.min = min(parse(line).roll)
         /\ o.max = max(parse(line).roll)
         /\ o.ev = ev(parse(line).roll)
    ELSE /\ o.stream = "stderr"
         /\ o.what = "ev"
         /\ o.error = description(parse(line).err)
         /\ o.line = line

ReportsInOrder ==
    InLoop =>
        /\ taken <= Len(LoopInputs)
        /\ Len(out) = taken
        /\ \A i \in 1..taken : ReportOf(LoopInputs[i], out[i])
        /\ cpc = "done" => taken = Len(LoopInputs)

OneAtATime ==
    (InLoop /\ cpc # "done") =>
        \/ /\ taken < Len(LoopInputs)
           /\ taken' = taken + 1
           /\ Len(out') = Len(out) + 1
           /\ SubSeq(out', 1, Len(out)) = out
           /\ cpc' = cpc
        \/ /\ taken = Len(LoopInputs)
           /\ cpc' = "done"
           /\ out' = out

====
